---- MODULE Spec2Model ----
(***************************************************************************)
(* Model of ooipy's OOIHydrophoneData (ooi_data_processing_library.py):    *)
(* segment listing and selection, the concurrent fetch, the gap-aware      *)
(* merge and slice of get_acoustic_data_conc, the sequential read loop of  *)
(* get_acoustic_data and its file-count limit, the chunked acquisition of  *)
(* get_acoustic_data_mp, the block structure of compute_spectrogram and    *)
(* compute_spectrogram_mp, the sample values of the delivered trace, the   *)
(* fields successive calls on one object leave behind, and the period loop *)
(* of Hydrophone_Xcorr.avg_over_mult_periods.                              *)
(*                                                                         *)
(* Time is counted in ticks.  One tick is the resolution of a timestamp    *)
(* and the sample period of a trace (sampling_rate = 1 sample per tick).   *)
(* A day has DayLen ticks; the day of starttime is day 0 = 0..DayLen-1,    *)
(* the previous day is -DayLen..-1.  A segment file holds FileLen samples  *)
(* starting at the time encoded in its name.                               *)
(***************************************************************************)
EXTENDS Integers, Sequences, FiniteSets, TLC

\* Samples held by one .mseed file, and the nominal spacing of file names.
FileLen == 2

\* Largest number of files the listing of one day holds.
MaxFiles == 2

\* How far past the end of day 0 a requested window may reach.
MaxOver == 1

\* Largest max_workers a call is given.
MaxWorkers == 2

DayLen == MaxFiles * FileLen

\* Python's None, for fields that otherwise hold records.
None == [kind |-> "None"]

\* No avg_over_mult_periods is running.
NoXcorr == [at |-> "idle"]

VARIABLES
    dayFiles,             \* remote listing of the day of starttime (sorted file times)
    prevFiles,            \* remote listing of the day before
    data_gap_mode,        \* self.data_gap_mode
    starttime,            \* self.starttime
    endtime,              \* self.endtime
    data,                 \* self.data
    data_available,       \* self.data_available: "None", "True" or "False"
    data_gap,             \* self.data_gap
    append,               \* argument append of the running call
    data_url_list,        \* local data_url_list of the running call
    valid_data_url_list,  \* local valid_data_url_list
    max_workers,          \* argument max_workers of the running call
    broken,               \* selected URLs whose obspy.read raises
    pending,              \* read tasks submitted and not yet completed
    st_list,              \* results of __map_concurrency, as collected
    ret,                  \* what the call returned
    pc,                   \* position of the running call
    spectrogram,          \* self.spectrogram
    specCall,             \* arguments of the running spectrogram call
    ooi_hyd_data_list,    \* the chunk objects handed to the worker pool
    chunkWorkers,         \* chunks whose worker process has not returned yet
    specgram_list,        \* the chunk results, by chunk
    nMseed,               \* .mseed entries in the listing of the day
    nOther,               \* other entries in the listing of the day
    limit_seed_files,     \* self.limit_seed_files
    nListed,              \* URLs the call goes on with after listing
    unreachable,          \* days whose remote listing cannot be fetched
    read_log,             \* URLs handed to read by the running get_acoustic_data
    st_all,               \* local st_all of the running get_acoustic_data
    get_data_list,        \* the chunk windows handed to the acquisition pool
    acqWorkers,           \* chunks whose get_acoustic_data has not returned yet
    data_list,            \* what get_acoustic_data returned, by chunk
    data_segmented,       \* self._data_segmented
    level,                \* the sample value each remote file holds, by file time
    samples,              \* the sample values of self.data
    finish_order,         \* the chunks of the worker pool, in the order they returned
    strayAt,              \* place in the day's listing of an .mseed entry whose
                          \* name holds no time (0: the listing holds none)
    xc                    \* the running Hydrophone_Xcorr.avg_over_mult_periods:
                          \* its arguments, its locals and the windows it used

envVars == <<dayFiles, prevFiles, unreachable, level, strayAt>>
seqVars == <<read_log, st_all>>
mpVars == <<get_data_list, acqWorkers, data_list, data_segmented>>
callVars == <<append, data_url_list, valid_data_url_list, max_workers, broken,
              pending, st_list>>
specVars == <<spectrogram, specCall, ooi_hyd_data_list, chunkWorkers, specgram_list,
              finish_order>>
limVars == <<nMseed, nOther, limit_seed_files, nListed>>

vars == <<dayFiles, prevFiles, data_gap_mode, starttime, endtime, data,
          data_available, data_gap, append, data_url_list,
          valid_data_url_list, max_workers, broken, pending, st_list, ret, pc,
          spectrogram, specCall, ooi_hyd_data_list, chunkWorkers, specgram_list,
          nMseed, nOther, limit_seed_files, nListed, unreachable, read_log,
          st_all, get_data_list, acqWorkers, data_list, data_segmented,
          level, samples, finish_order, strayAt, xc>>

----------------------------------------------------------------------------
(* URLs and the remote listing                                             *)

\* A file URL; its name carries the start time after the 'YDH' marker.
Url(t) == [ydh |-> t]

\* UTCDateTime(url.split('YDH')[1][1:].split('.mseed')[0])
UrlTime(u) == u.ydh

\* utc_time_url_stop of the last list entry: 23:59:59.999999 of its own day.
DayEnd(t) == (t \div DayLen) * DayLen + (DayLen - 1)

\* File times a day's listing can hold.
DayTimes == {k * FileLen : k \in 0..(MaxFiles - 1)}

RECURSIVE SortedSeq(_)
SortedSeq(S) ==
    IF S = {} THEN <<>>
    ELSE LET m == CHOOSE x \in S : \A y \in S : x <= y
         IN <<m>> \o SortedSeq(S \ {m})

\* __get_mseed_urls: the sorted .mseed URLs of one day.
GetMseedUrls(files) == [i \in 1..Len(files) |-> Url(files[i])]

\* The URL of an entry that ends in .mseed and holds no time after 'YDH'.
Stray == [name |-> "no time"]

\* __get_mseed_urls on the day of starttime: every entry ending in .mseed
\* is listed, so the stray entry is, at the place its name sorts to.
DayListing(files) ==
    IF strayAt = 0 THEN GetMseedUrls(files)
    ELSE SubSeq(GetMseedUrls(files), 1, strayAt - 1) \o <<Stray>>
            \o SubSeq(GetMseedUrls(files), strayAt, Len(files))

\* UTCDateTime(url.split('YDH')[1][1:].split('.mseed')[0]) raises.
ParseRaises(u) == u = Stray

\* np.insert(arr, 0, x)
InsertFront(arr, x) == <<x>> \o arr

\* np.insert(arr, -1, x): x goes before the last element.
InsertMinusOne(arr, x) ==
    SubSeq(arr, 1, Len(arr) - 1) \o <<x>> \o <<arr[Len(arr)]>>

\* Number of times the listing of the day is fetched into data_url_list:
\* once, and once more for every day_start < endtime of the while loop.
RECURSIVE ListingCopies(_, _)
ListingCopies(day_start, et) ==
    IF day_start < et THEN 1 + ListingCopies(day_start + DayLen, et) ELSE 0

RECURSIVE Repeat(_, _)
Repeat(s, n) == IF n = 0 THEN <<>> ELSE s \o Repeat(s, n - 1)

\* data_url_list as built before the selection loop.
BuildUrlList(day, prev, st, et, app) ==
    LET day_start == (st \div DayLen) * DayLen
        listed == Repeat(DayListing(day), 1 + ListingCopies(day_start + DayLen, et))
        data_url_prev_day == GetMseedUrls(prev)[Len(prev)]
        data_url_last_day == DayListing(day)[1]
    IN IF app
       THEN InsertMinusOne(InsertFront(listed, data_url_prev_day), data_url_last_day)
       ELSE listed

----------------------------------------------------------------------------
(* Segment selection                                                       *)

\* The three-way test "current segment contains desired data".
Covers(list, i, st, et) ==
    LET utc_time_url_start == UrlTime(list[i])
        utc_time_url_stop == IF i # Len(list) THEN UrlTime(list[i + 1])
                             ELSE DayEnd(UrlTime(list[i]))
    IN \/ (utc_time_url_start >= st /\ utc_time_url_start < et)
       \/ (utc_time_url_stop >= st /\ utc_time_url_stop < et)
       \/ (utc_time_url_start <= st /\ utc_time_url_stop >= et)

\* What the selection loop leaves: valid_data_url_list, or the exception
\* that left the loop.
Selected(valid) == [exc |-> "", urls |-> valid]
SelectionRaised(exc) == [exc |-> exc, urls |-> <<>>]

\* The selection loop; index 1 here is index 0 of the code.  Lines 575-585
\* parse the name of entry i and of the entry after it outside any try.
RECURSIVE SelectLoop(_, _, _, _, _, _, _)
SelectLoop(list, i, valid, first_file, st, et, app) ==
    IF i > Len(list) THEN Selected(valid)
    ELSE IF ParseRaises(list[i]) \/ (i # Len(list) /\ ParseRaises(list[i + 1]))
    THEN SelectionRaised("ValueError")
    ELSE IF Covers(list, i, st, et)
    THEN IF app
         THEN IF i = 1
              THEN SelectLoop(list, i + 1, Append(valid, list[i]), FALSE, st, et, app)
              ELSE IF first_file
              THEN SelectLoop(list, i + 1, <<list[i - 1], list[i]>>, FALSE, st, et, app)
              ELSE SelectLoop(list, i + 1, Append(valid, list[i]), first_file, st, et, app)
         ELSE SelectLoop(list, i + 1, Append(valid, list[i]),
                         IF i = 1 THEN FALSE ELSE first_file, st, et, app)
    ELSE IF first_file = FALSE
         THEN Selected(IF app THEN Append(valid, list[i]) ELSE valid)
         ELSE SelectLoop(list, i + 1, valid, first_file, st, et, app)

SelectUrls(list, st, et, app) == SelectLoop(list, 1, <<>>, TRUE, st, et, app)

----------------------------------------------------------------------------
(* Concurrent fetch                                                        *)

\* __read_mseed without its try/except: the error of read leaves the task.
ReadMseedUncaught(url, bad) ==
    IF url \notin bad
    THEN [kind |-> "Stream", start |-> UrlTime(url), npts |-> FileLen]
    ELSE [kind |-> "Raise", exc |-> "ReadError"]

\* __read_mseed: the decoded Stream of the file, or None when read raises.
ReadMseed(url, bad) ==
    IF url \notin bad
    THEN [kind |-> "Stream", start |-> UrlTime(url), npts |-> FileLen]
    ELSE None

----------------------------------------------------------------------------
(* Merge and slice                                                         *)

\* Sample times held by one decoded Stream.
Ticks(st) == st.start .. (st.start + st.npts - 1)

\* Sample times held by the traces accumulated in st_all.
Covered(results) ==
    UNION {Ticks(results[i]) : i \in {j \in 1..Len(results) : results[j] # None}}

MinOf(S) == CHOOSE x \in S : \A y \in S : x <= y
MaxOf(S) == CHOOSE x \in S : \A y \in S : x >= y

\* Sample times inside the merged span that no decoded Stream holds.
Gaps(results) ==
    LET c == Covered(results) IN (MinOf(c) .. MaxOf(c)) \ c

\* The merge with mode 2 leaving the masked array unfilled.
MergeTracesUnfilled(results, mode) ==
    LET c == Covered(results)
        g == Gaps(results)
        base == [kind |-> "Trace", start |-> MinOf(c),
                 npts |-> MaxOf(c) - MinOf(c) + 1, fs |-> 1]
    IN IF mode = 0
       THEN base @@ [masked |-> FALSE, invalid |-> {}, filled |-> g]
       ELSE base @@ [masked |-> (g # {}), invalid |-> g, filled |-> {}]

\* The merge passing fill_value='interpolate' under every mode.
MergeTracesInterpolated(results, mode) ==
    LET c == Covered(results)
        g == Gaps(results)
        base == [kind |-> "Trace", start |-> MinOf(c),
                 npts |-> MaxOf(c) - MinOf(c) + 1, fs |-> 1]
    IN base @@ [masked |-> FALSE, invalid |-> {}, filled |-> g]

\* The merge taking the traces as st_all lists them, without sorting them
\* by start time: the merged trace starts with the first trace listed.
MergeTracesAsListed(results, mode) ==
    LET c == Covered(results)
        first == CHOOSE i \in 1..Len(results) :
                    /\ results[i] # None
                    /\ \A j \in 1..(i - 1) : results[j] = None
        from == results[first].start
        g == (from .. MaxOf(c)) \ c
        base == [kind |-> "Trace", start |-> from,
                 npts |-> MaxOf(c) - from + 1, fs |-> 1]
    IN IF mode = 0
       THEN base @@ [masked |-> FALSE, invalid |-> {}, filled |-> g]
       ELSE IF mode = 1
       THEN base @@ [masked |-> (g # {}), invalid |-> g, filled |-> {}]
       ELSE base @@ [masked |-> FALSE, invalid |-> {}, filled |-> g]

\* st_all.merge(...) for gap mode 0, 1 and 2, on a non-empty st_all.
\* masked: the data is a numpy MaskedArray; invalid: the masked sample
\* times; filled: the sample times holding interpolated or zero values.
MergeTraces(results, mode) ==
    LET c == Covered(results)
        g == Gaps(results)
        base == [kind |-> "Trace", start |-> MinOf(c),
                 npts |-> MaxOf(c) - MinOf(c) + 1, fs |-> 1]
    IN IF mode = 0
       THEN base @@ [masked |-> FALSE, invalid |-> {}, filled |-> g]
       ELSE IF mode = 1
       THEN base @@ [masked |-> (g # {}), invalid |-> g, filled |-> {}]
       ELSE base @@ [masked |-> FALSE, invalid |-> {}, filled |-> g]

\* Stream.slice(starttime, endtime): both ends are kept, nothing is padded;
\* None stands for the empty Stream.  The sample times are those of a
\* trace of one sample per tick, which is what the files hold.
SliceTrace(tr, st, et) ==
    LET lo == IF tr.start > st THEN tr.start ELSE st
        last == tr.start + tr.npts - 1
        hi == IF last < et THEN last ELSE et
    IN IF lo > hi THEN None
       ELSE [kind |-> "Trace", start |-> lo, npts |-> hi - lo + 1,
             fs |-> tr.fs, masked |-> tr.masked,
             invalid |-> tr.invalid \cap (lo..hi),
             filled |-> tr.filled \cap (lo..hi)]

Raise(exc) == [kind |-> "Raise", exc |-> exc]
Running == [kind |-> "Running"]

----------------------------------------------------------------------------
(* Sample values                                                           *)

\* File times the listings of the day and of the day before can hold.
FileTimes == DayTimes \cup {0 - FileLen}

\* Every sample of a file holds the file's level; by default the files
\* hold levels that rise with the file time.
Ramp == [t \in FileTimes |-> (t + FileLen) \div FileLen + 1]

\* The data array of a trace: val maps a sample time to the sample's value
\* times scale (after demeaning the values are multiples of 1 / scale).
\* Masked samples and the samples obspy interpolates have no entry.
SampleValues(scale, val) == [scale |-> scale, val |-> val]

\* The data of an object that holds no trace.
NoSamples == SampleValues(1, <<>>)

\* The value the merged trace holds at time t: that of the latest decoded
\* Stream holding t (method=1 keeps the following trace where two overlap).
ValueAt(results, t) ==
    LET holders == {i \in 1..Len(results) :
                       results[i] # None /\ t \in Ticks(results[i])}
    IN level[MaxOf({results[i].start : i \in holders})]

RECURSIVE SumOver(_, _)
SumOver(f, S) ==
    IF S = {} THEN 0
    ELSE LET x == CHOOSE y \in S : TRUE IN f[x] + SumOver(f, S \ {x})

\* st_all[0].data after the merge of lines 636-647.  Mode 2: np.mean of the
\* masked array is the mean total / n of its n unmasked samples; it is
\* subtracted from every sample and the masked samples are filled with 0.
MergedValues(results, mode) ==
    LET c == Covered(results)
        g == Gaps(results)
        raw == [t \in c |-> ValueAt(results, t)]
        n == Cardinality(c)
        total == SumOver(raw, c)
    IN IF mode = 2
       THEN SampleValues(n, [t \in c \cup g |->
                                IF t \in c THEN n * raw[t] - total ELSE 0])
       ELSE SampleValues(1, raw)

\* The data array after Stream.slice(starttime, endtime).
SliceValues(v, st, et) ==
    SampleValues(v.scale, [t \in (DOMAIN v.val) \cap (st..et) |-> v.val[t]])

----------------------------------------------------------------------------
(* get_acoustic_data_conc                                                  *)

WindowStarts == 0 .. (DayLen - 1)
DayWindowEnds(st) == (st + 1) .. DayLen
LongWindowEnds(st) == (DayLen + 1) .. (DayLen + MaxOver)

\* The days whose listing a call fetches: the day before starttime and the
\* day of starttime (which the code lists again for every later day).
Days == {"prev", "day"}

\* Lines 521-624: set the fields, list the days, select the URLs and submit
\* one read task per selected URL.
ConcCall(st, et, app, workers) ==
    /\ pc = "idle"
    /\ max_workers' = workers
    /\ starttime' = st
    /\ endtime' = et
    /\ append' = app
    /\ data_gap' = FALSE
    /\ IF unreachable # {}
       THEN \* FS.ls raises inside __get_mseed_urls
            /\ pc' = "raised"
            /\ ret' = Raise("ListingError")
            /\ UNCHANGED <<data_url_list, valid_data_url_list, broken, pending>>
       ELSE IF prevFiles = <<>> \/ DayListing(dayFiles) = <<>>
       THEN /\ pc' = "raised"
            /\ ret' = Raise("IndexError")
            /\ UNCHANGED <<data_url_list, valid_data_url_list, broken, pending>>
       ELSE LET list == BuildUrlList(dayFiles, prevFiles, st, et, app)
                sel == SelectUrls(list, st, et, app)
                valid == sel.urls
            IN /\ data_url_list' = list
               /\ valid_data_url_list' = valid
               /\ IF sel.exc # ""
                  THEN \* the name of a listed entry does not parse
                       /\ pc' = "raised"
                       /\ ret' = Raise(sel.exc)
                       /\ UNCHANGED <<broken, pending>>
                  ELSE /\ broken' \in SUBSET {valid[i] : i \in 1..Len(valid)}
                       /\ pending' = 1..Len(valid)
                       /\ pc' = "fetching"
                       /\ ret' = Running
    /\ UNCHANGED <<envVars, xc, samples, seqVars, mpVars, data_gap_mode, data, data_available, st_list, specVars,
                   limVars>>

\* The read tasks a pool of max_workers threads is running: the pool takes
\* the submitted tasks in submission order.
InFlight == {i \in pending : Cardinality({j \in pending : j < i}) < max_workers}

\* __map_concurrency: a read task completes and as_completed hands its
\* result to results.append.
TaskDone(i) ==
    /\ pc = "fetching"
    /\ i \in InFlight
    /\ LET res == ReadMseed(valid_data_url_list[i], broken)
       IN IF res.kind = "Raise"
          THEN /\ pc' = "raised"
               /\ ret' = res
               /\ UNCHANGED st_list
          ELSE /\ st_list' = Append(st_list, res)
               /\ UNCHANGED <<pc, ret>>
    /\ pending' = pending \ {i}
    /\ UNCHANGED <<envVars, xc, samples, seqVars, mpVars, data_gap_mode, starttime, endtime, data,
                   data_available, data_gap, append, data_url_list,
                   valid_data_url_list, max_workers, broken, specVars, limVars>>

\* Lines 625-685: accumulate, merge, slice, set the result fields.
Assemble ==
    /\ pc = "fetching"
    /\ pending = {}
    /\ LET have == \E i \in 1..Len(st_list) : st_list[i] # None
           merged == MergeTraces(st_list, data_gap_mode)
           sliced == SliceTrace(merged, starttime, endtime)
       IN IF data_gap_mode \notin {0, 1, 2}
          THEN \* 'Invalid Data Gap Mode': return None
               /\ pc' = "done"
               /\ ret' = None
               /\ UNCHANGED <<data, data_available, data_gap, samples>>
          ELSE IF ~have
          THEN \* st_all is None: st_all.merge
               /\ pc' = "raised"
               /\ ret' = Raise("AttributeError")
               /\ UNCHANGED <<data, data_available, data_gap, samples>>
          ELSE IF data_gap_mode = 2 /\ Gaps(st_list) = {}
          THEN \* the data is a plain ndarray: data.fill_value = 0
               /\ pc' = "raised"
               /\ ret' = Raise("AttributeError")
               /\ UNCHANGED <<data, data_available, data_gap, samples>>
          ELSE IF sliced = None
          THEN \* the sliced Stream is empty: st_all[0]
               /\ pc' = "raised"
               /\ ret' = Raise("IndexError")
               /\ UNCHANGED <<data, data_available, data_gap, samples>>
          ELSE /\ pc' = "done"
               /\ ret' = sliced
               /\ data' = sliced
               /\ data_available' = "True"
               /\ data_gap' = sliced.masked
               /\ samples' = SliceValues(MergedValues(st_list, data_gap_mode),
                                         starttime, endtime)
    /\ UNCHANGED <<envVars, xc, seqVars, mpVars, data_gap_mode, starttime, endtime, callVars, specVars,
                   limVars>>

GapModes == 0..3

\* The fields and locals that a specification's initial state fixes.
NoCall ==
    /\ append = FALSE
    /\ data_url_list = <<>>
    /\ valid_data_url_list = <<>>
    /\ max_workers = 1
    /\ broken = {}
    /\ pending = {}
    /\ st_list = <<>>
    /\ ret = None
    /\ pc = "idle"

NoSpectrogram ==
    /\ spectrogram = None
    /\ specCall = None
    /\ ooi_hyd_data_list = <<>>
    /\ chunkWorkers = {}
    /\ specgram_list = <<>>
    /\ finish_order = <<>>

NoLimit ==
    /\ nMseed = 0
    /\ nOther = 0
    /\ limit_seed_files = TRUE
    /\ nListed = 0

NoSeq ==
    /\ read_log = <<>>
    /\ st_all = None

NoMp ==
    /\ get_data_list = <<>>
    /\ acqWorkers = {}
    /\ data_list = <<>>
    /\ data_segmented = <<>>

AcqInit ==
    /\ dayFiles \in {SortedSeq(S) : S \in SUBSET DayTimes}
    /\ prevFiles \in {<<>>, <<0 - FileLen>>}
    /\ data_gap_mode \in GapModes
    /\ NoCall
    /\ NoSpectrogram
    /\ NoLimit
    /\ NoSeq
    /\ NoMp
    /\ unreachable = {}
    /\ level = Ramp
    /\ strayAt = 0
    /\ xc = NoXcorr
    /\ samples = NoSamples
    /\ starttime = 0
    /\ endtime = 0
    /\ data = None
    /\ data_available = "None"
    /\ data_gap = FALSE

AcqNext ==
    \/ \E st \in WindowStarts : \E et \in DayWindowEnds(st) : \E app \in BOOLEAN :
          \E workers \in 1..MaxWorkers : ConcCall(st, et, app, workers)
    \/ \E i \in pending : TaskDone(i)
    \/ Assemble

\* Requests inside one day, read by up to MaxWorkers concurrent threads.
Spec == AcqInit /\ [][AcqNext]_vars

DaysNext ==
    \/ \E st \in WindowStarts : \E et \in LongWindowEnds(st) : \E app \in BOOLEAN :
          ConcCall(st, et, app, 1)
    \/ \E i \in pending : TaskDone(i)
    \/ Assemble

\* Requests that reach into the following day, read by one thread.
SpecDays == AcqInit /\ [][DaysNext]_vars

----------------------------------------------------------------------------
(* Properties of the fetch stage                                           *)

\* What each submitted read task yields, in request order.
Requested ==
    [i \in 1..Len(valid_data_url_list) |-> ReadMseed(valid_data_url_list[i], broken)]

\* All read tasks of the running call have completed.
FetchComplete == pc = "fetching" /\ pending = {}

Count(seq, x) == Cardinality({i \in 1..Len(seq) : seq[i] = x})

AllNone(seq) == \A i \in 1..Len(seq) : seq[i] = None

\* The controlled no-data outcome of a call.
NoDataOutcome ==
    pc = "done" /\ ret = None /\ data = None /\ data_available = "False"

\* C1: when all read tasks have completed, the result list holds the result
\* of the i-th requested URL at position i, whatever the completion order.
C1_ResultsInRequestOrder == FetchComplete => st_list = Requested

C3_AllNoneIsNoData ==
    (/\ pc \in {"done", "raised"}
     /\ Len(valid_data_url_list) > 0
     /\ Len(st_list) = Len(valid_data_url_list)
     /\ AllNone(st_list))
        => NoDataOutcome

\* C4: a successful call leaves a trace of (endtime - starttime) *
\* sampling_rate samples, under every gap mode.
C4_SampleCount ==
    (pc = "done" /\ ret.kind = "Trace") => ret.npts = endtime - starttime

Catalog == GetMseedUrls(prevFiles) \o GetMseedUrls(dayFiles)

\* The window lies before the start of every cataloged segment the call
\* lists, or after the end of the day of every one of them.
WindowOutsideCatalog ==
    LET listed == IF append THEN Catalog ELSE GetMseedUrls(dayFiles)
    IN \/ \A i \in 1..Len(listed) : endtime <= UrlTime(listed[i])
       \/ \A i \in 1..Len(listed) : starttime > DayEnd(UrlTime(listed[i]))

\* C6: a window entirely before the earliest or after the latest cataloged
\* segment ends in the no-data outcome: no success, no uncaught exception.
C6_OutsideIsNoData ==
    (/\ pc \in {"done", "raised"}
     /\ dayFiles # <<>>
     /\ prevFiles # <<>>
     /\ WindowOutsideCatalog)
        => NoDataOutcome

\* seq is a subsequence of of: an order-preserving choice of distinct
\* positions of of.
IsSubsequence(seq, of) ==
    \E f \in [1..Len(seq) -> 1..Len(of)] :
        /\ \A i \in 1..Len(seq) : of[f[i]] = seq[i]
        /\ \A i, j \in 1..Len(seq) : i < j => f[i] < f[j]

\* C8: the URLs selected for download are a subsequence of the time-ordered
\* catalog: its order is kept and no catalog entry is selected twice.
C8_SelectedIsSubsequence ==
    pc \in {"fetching", "done"} => IsSubsequence(valid_data_url_list, Catalog)

\* C9: the URLs selected for download are strictly increasing in segment
\* start time, so no URL is selected twice.
C9_SelectedStrictlyOrdered ==
    \A i, j \in 1..Len(valid_data_url_list) :
        i < j => UrlTime(valid_data_url_list[i]) < UrlTime(valid_data_url_list[j])

----------------------------------------------------------------------------
(* compute_spectrogram and compute_spectrogram_mp                          *)

\* Longest trace, in ticks, a spectrogram is computed for.
MaxSpan == 16

\* Largest block length L and largest avg_time.
MaxBlock == 4

\* Largest number of chunks a parallel call is split into.
MaxChunks == 4

\* <<row[a], row[a + 1], ..., row[b]>>
RECURSIVE SeqOf(_, _, _)
SeqOf(a, b, row) ==
    IF a > b THEN <<>> ELSE <<row[a]>> \o SeqOf(a + 1, b, row)

\* avg_time of half a sample period: int(fs * avg_time) is 0.
SubSample == -1

\* int(L/2)+1
NumFreq(L) == L \div 2 + 1

\* The frequencies f a library call returns with n bins, nfft = L, on data
\* of sampling rate fs: bin k lies at k * fs / L, held as <<k * fs, L>>.
FreqAxis(n, L, fs) == [k \in 1..n |-> <<(k - 1) * fs, L>>]

\* len(Pxx) of signal.periodogram(x): nfft is len(x); empty x, empty result.
PeriodogramBins(xlen) == IF xlen = 0 THEN 0 ELSE xlen \div 2 + 1

\* len(Pxx) of signal.welch(x, nperseg=L, nfft=L): empty x, empty result.
WelchBins(xlen, L) == IF xlen = 0 THEN 0 ELSE L \div 2 + 1

\* Twice avg_time * fs, the samples of one time step.
TwiceBinSamples(avg, fs) == IF avg = SubSample THEN 1 ELSE 2 * avg * fs

\* The data blocks compute_spectrogram hands to the library, in loop order,
\* for npts samples: n is the loop index, first the index of the block's
\* first sample, len its length; avg = 0 stands for avg_time = None.
SpectrogramBlocks(npts, L, avg, fs) ==
    IF avg = 0
    THEN LET nbins == npts \div L
         IN SeqOf(0, nbins - 2,
                  [n \in 0..(nbins - 2) |->
                      [n |-> n, first |-> n * L, len |-> L,
                       method |-> "periodogram"]])
    ELSE LET spb2 == TwiceBinSamples(avg, fs)
             nbins == (2 * npts + spb2 - 1) \div spb2
             blk == spb2 \div 2
             rstart == IF nbins = 0 THEN 0 ELSE ((nbins - 1) * spb2) \div 2
             residual == IF rstart < npts THEN npts - rstart ELSE 0
             full == SeqOf(0, nbins - 2,
                           [n \in 0..(nbins - 2) |->
                               [n |-> n, first |-> n * blk, len |-> blk,
                                method |-> "welch"]])
         IN IF residual >= L
            THEN Append(full, [n |-> nbins - 1, first |-> rstart,
                               len |-> residual, method |-> "welch"])
            ELSE full

\* len(Pxx) for one block.
BlockBins(b, L) ==
    IF b.method = "periodogram" THEN PeriodogramBins(b.len) ELSE WelchBins(b.len, L)

\* One spectrogram row: its time bin, the samples its values are computed
\* from (the values of a row are a function of its block; first is the
\* number of the block's first sample, counted in samples since time 0)
\* and the number of values it holds.
Row(t, first, len, method, bins) ==
    [time |-> t, first |-> first, len |-> len, method |-> method, bins |-> bins]

\* Spectrogram(time, f, specgram)
Spectrogram(rows, f) ==
    [kind |-> "Spectrogram",
     time |-> [i \in 1..Len(rows) |-> rows[i].time],
     freq |-> f,
     values |-> [i \in 1..Len(rows) |-> [rows[i] EXCEPT !.time = 0]]]

\* The rows compute_spectrogram appends for trace tr of an object whose
\* starttime is st when no block fails the bin test.  The time bin of
\* periodogram row n is st + n * L / fs: L is a multiple of fs for the
\* requests drawn.
SpectrogramRows(tr, st, L, avg) ==
    LET blocks == SpectrogramBlocks(tr.npts, L, avg, tr.fs)
    IN [i \in 1..Len(blocks) |->
          LET b == blocks[i]
          IN Row(IF avg = 0 THEN st + (b.n * L) \div tr.fs ELSE st + b.n * avg,
                 tr.start * tr.fs + b.first, b.len, b.method, BlockBins(b, L))]

\* compute_spectrogram without the test of len(Pxx): every block's result
\* is appended and f is that of the last library call.
ComputeSpectrogramUnchecked(tr, st, L, avg) ==
    IF tr = None THEN None
    ELSE LET rows == SpectrogramRows(tr, st, L, avg)
         IN IF Len(rows) = 0 THEN None
            ELSE Spectrogram(rows, FreqAxis(rows[Len(rows)].bins, L, tr.fs))

\* compute_spectrogram: the value left in self.spectrogram.
ComputeSpectrogram(tr, st, L, avg) ==
    IF tr = None THEN None
    ELSE LET blocks == SpectrogramBlocks(tr.npts, L, avg, tr.fs)
             rows == SpectrogramRows(tr, st, L, avg)
         IN IF \E i \in 1..Len(blocks) : BlockBins(blocks[i], L) # NumFreq(L)
            THEN None
            ELSE IF Len(rows) = 0 THEN None
            ELSE Spectrogram(rows, FreqAxis(NumFreq(L), L, tr.fs))

\* n_seg of the segmentation from scratch: ceil(duration / split).
NumSeg(st, et, split) == ((et - st) + split - 1) \div split

\* The chunk objects of the segmentation from scratch (seconds_per_process
\* is a whole number of ticks for the requests drawn here, and the time
\* stamps are UTCDateTime values, which Trace.slice accepts).
ChunkList(tr, st, et, split) ==
    LET n_seg == NumSeg(st, et, split)
        seconds_per_process == (et - st) \div n_seg
    IN [k \in 1..n_seg |->
          LET cs == st + (k - 1) * seconds_per_process
              ce == IF k = n_seg THEN et ELSE st + k * seconds_per_process
          IN [starttime |-> cs, endtime |-> ce, data |-> SliceTrace(tr, cs, ce)]]

RECURSIVE ConcatAll(_, _)
ConcatAll(seqs, i) ==
    IF i > Len(seqs) THEN <<>> ELSE seqs[i] \o ConcatAll(seqs, i + 1)

\* The reduction keeping the time bins of the first chunk only.
ReduceSpectrogramsFirstTime(list) ==
    IF \E i \in 1..Len(list) : list[i] = None THEN None
    ELSE [kind |-> "Spectrogram",
          time |-> list[1].time,
          freq |-> list[1].freq,
          values |-> ConcatAll([i \in 1..Len(list) |-> list[i].values], 1)]

\* The reduction of compute_spectrogram_mp over the chunk results: a chunk
\* without a spectrogram raises inside the try and leaves None.
ReduceSpectrograms(list) ==
    IF \E i \in 1..Len(list) : list[i] = None THEN None
    ELSE [kind |-> "Spectrogram",
          time |-> ConcatAll([i \in 1..Len(list) |-> list[i].time], 1),
          freq |-> list[1].freq,
          values |-> ConcatAll([i \in 1..Len(list) |-> list[i].values], 1)]

Unset == [kind |-> "Unset"]

BlockLens == 2..MaxBlock

\* avg_time for block length L: None (0), longer than the int(L * overlap)
\* samples two Welch segments share at the default overlap of 0.5 (the
\* library rejects shorter blocks), or shorter than a sample period.
AvgTimes(L) == {0, SubSample} \cup ((L \div 2 + 1)..MaxBlock)

\* compute_spectrogram(win, L, avg_time, overlap)
SpectrogramCall(L, avg) ==
    /\ pc = "idle"
    /\ specCall' = [op |-> "compute_spectrogram", L |-> L, avg_time |-> avg, split |-> 0]
    /\ spectrogram' = ComputeSpectrogram(data, starttime, L, avg)
    /\ pc' = "done"
    /\ UNCHANGED <<envVars, xc, samples, seqVars, mpVars, data_gap_mode, starttime, endtime, data, data_available,
                   data_gap, callVars, ret, ooi_hyd_data_list, chunkWorkers,
                   specgram_list, finish_order, limVars>>

\* compute_spectrogram_mp(split, ...), lines 823-855: segment from scratch
\* and hand the chunks to the pool.
SpectrogramMpCall(split, L, avg) ==
    /\ pc = "idle"
    /\ NumSeg(starttime, endtime, split) <= MaxChunks
    /\ (endtime - starttime) % NumSeg(starttime, endtime, split) = 0
    /\ specCall' = [op |-> "compute_spectrogram_mp", L |-> L, avg_time |-> avg,
                    split |-> split]
    /\ ooi_hyd_data_list' = ChunkList(data, starttime, endtime, split)
    /\ chunkWorkers' = 1..NumSeg(starttime, endtime, split)
    /\ specgram_list' = [k \in 1..NumSeg(starttime, endtime, split) |-> Unset]
    /\ finish_order' = <<>>
    /\ pc' = "mapping"
    /\ UNCHANGED <<envVars, xc, samples, seqVars, mpVars, data_gap_mode, starttime, endtime, data, data_available,
                   data_gap, callVars, ret, spectrogram, limVars>>

\* The list the pool collects while the results come in, holding them in
\* the order the workers return.
StarmapResultAsCompleted(list, k, res) ==
    LET free == {i \in 1..Len(list) : list[i] = Unset}
    IN [list EXCEPT ![CHOOSE i \in free : \A j \in free : i <= j] = res]

\* p.starmap collects the result of the k-th argument tuple at position k
\* of the list it returns, whenever its worker returns.
StarmapResult(list, k, res) == [list EXCEPT ![k] = res]

\* _spectrogram_mp_helper in a worker process: the chunk's spectrogram.
ChunkDone(k) ==
    /\ pc = "mapping"
    /\ k \in chunkWorkers
    /\ specgram_list' =
          StarmapResult(specgram_list, k,
                        ComputeSpectrogram(ooi_hyd_data_list[k].data,
                                           ooi_hyd_data_list[k].starttime,
                                           specCall.L, specCall.avg_time))
    /\ finish_order' = Append(finish_order, k)
    /\ chunkWorkers' = chunkWorkers \ {k}
    /\ UNCHANGED <<envVars, xc, samples, seqVars, mpVars, data_gap_mode, starttime, endtime, data, data_available,
                   data_gap, callVars, ret, pc, spectrogram, specCall,
                   ooi_hyd_data_list, limVars>>

\* Lines 857-870: starmap has returned, concatenate the chunk results.
SpectrogramMpReduce ==
    /\ pc = "mapping"
    /\ chunkWorkers = {}
    /\ spectrogram' = ReduceSpectrograms(specgram_list)
    /\ pc' = "done"
    /\ UNCHANGED <<envVars, xc, samples, seqVars, mpVars, data_gap_mode, starttime, endtime, data, data_available,
                   data_gap, callVars, ret, specCall, ooi_hyd_data_list,
                   chunkWorkers, specgram_list, finish_order, limVars>>

\* An object holding the trace of a gap-free acquisition of span ticks:
\* span samples, or span + 1 when the slice kept the sample at endtime.
SpecgramInit ==
    /\ dayFiles = <<>>
    /\ prevFiles = <<>>
    /\ data_gap_mode = 0
    /\ NoCall
    /\ NoSpectrogram
    /\ NoLimit
    /\ NoSeq
    /\ NoMp
    /\ unreachable = {}
    /\ level = Ramp
    /\ strayAt = 0
    /\ xc = NoXcorr
    /\ starttime = 0
    /\ endtime \in 1..MaxSpan
    /\ \E extra \in 0..1 :
          /\ data = [kind |-> "Trace", start |-> 0, npts |-> endtime + extra,
                     fs |-> 1, masked |-> FALSE, invalid |-> {}, filled |-> {}]
          /\ samples = SampleValues(1, [t \in 0..(endtime + extra - 1) |-> 1])
    /\ data_available = "True"
    /\ data_gap = FALSE

SpecgramNext ==
    \/ \E L \in BlockLens : \E avg \in AvgTimes(L) : SpectrogramCall(L, avg)
    \/ \E split \in 1..(endtime - starttime) : \E L \in BlockLens :
          \E avg \in AvgTimes(L) : SpectrogramMpCall(split, L, avg)
    \/ \E k \in chunkWorkers : ChunkDone(k)
    \/ SpectrogramMpReduce

SpecSpectrogram == SpecgramInit /\ [][SpecgramNext]_vars

\* The chunks of the running compute_spectrogram_mp call hold a whole
\* number of analysis blocks.
ChunksAligned ==
    LET per == (endtime - starttime) \div NumSeg(starttime, endtime, specCall.split)
        block == IF specCall.avg_time = 0 THEN specCall.L ELSE specCall.avg_time
    IN specCall.avg_time # SubSample /\ per % block = 0

\* C7: compute_spectrogram_mp over 4 block-aligned chunks leaves the same
\* time bins and value rows as the computation in a single chunk and as
\* compute_spectrogram over the whole trace.
C7_FourChunksEqualOne ==
    (/\ pc = "done"
     /\ specCall # None
     /\ specCall.op = "compute_spectrogram_mp"
     /\ NumSeg(starttime, endtime, specCall.split) = 4
     /\ ChunksAligned)
        => /\ spectrogram = ComputeSpectrogram(data, starttime, specCall.L,
                                               specCall.avg_time)
           /\ spectrogram = ReduceSpectrograms(
                 [k \in 1..1 |->
                     ComputeSpectrogram(SliceTrace(data, starttime, endtime),
                                        starttime, specCall.L, specCall.avg_time)])

----------------------------------------------------------------------------
(* The file-count limit, on listings too long to enumerate                 *)

\* Ceiling on the length of data_url_list in get_acoustic_data.
MaxSeedFiles == 1000

\* How far the listing lengths drawn lie around MaxSeedFiles.
LimitSlack == 2

\* Times the day's listing is held in data_url_list for a window ending at et.
Copies(et) == 1 + ListingCopies(DayLen, et)

\* "if len(data_url_list) > 1000" under "if self.limit_seed_files".
TooManyFiles(limit, len) == limit /\ len > MaxSeedFiles

\* get_acoustic_data, lines 220-279, with the listing of the day given by
\* its numbers of .mseed and other entries: the crawler returns both kinds,
\* the limit is tested before the .mseed filter, and the last file of the
\* day before (whose listing holds a file here) is inserted after it.
SeqListing(et, app) ==
    /\ pc = "idle"
    /\ endtime' = et
    /\ append' = app
    /\ data_gap' = FALSE
    /\ IF TooManyFiles(limit_seed_files, (nMseed + nOther) * Copies(et))
       THEN /\ data' = None
            /\ samples' = NoSamples
            /\ data_available' = "False"
            /\ ret' = None
            /\ pc' = "done"
            /\ UNCHANGED nListed
       ELSE /\ nListed' = nMseed * Copies(et) + (IF app THEN 1 ELSE 0)
            /\ ret' = Running
            /\ pc' = "reading"
            /\ UNCHANGED <<data, samples, data_available>>
    /\ UNCHANGED <<envVars, xc, seqVars, mpVars, data_gap_mode, starttime, data_url_list,
                   valid_data_url_list, max_workers, broken, pending, st_list,
                   specVars, nMseed, nOther, limit_seed_files>>

\* get_acoustic_data_conc, lines 521-561, on the same listing: the listing
\* holds the .mseed entries only and its length is not tested.
ConcListing(et, app) ==
    /\ pc = "idle"
    /\ endtime' = et
    /\ append' = app
    /\ data_gap' = FALSE
    /\ nListed' = nMseed * Copies(et) + (IF app THEN 2 ELSE 0)
    /\ ret' = Running
    /\ pc' = "selecting"
    /\ UNCHANGED <<envVars, xc, samples, seqVars, mpVars, data_gap_mode, starttime, data, data_available,
                   data_url_list, valid_data_url_list, max_workers, broken,
                   pending, st_list, specVars, nMseed, nOther, limit_seed_files>>

LimitInit ==
    /\ dayFiles = <<>>
    /\ prevFiles = <<>>
    /\ data_gap_mode = 0
    /\ NoCall
    /\ NoSpectrogram
    /\ NoSeq
    /\ NoMp
    /\ unreachable = {}
    /\ level = Ramp
    /\ strayAt = 0
    /\ xc = NoXcorr
    /\ samples = NoSamples
    /\ nMseed \in (MaxSeedFiles - LimitSlack)..(MaxSeedFiles + LimitSlack)
    /\ nOther \in 0..LimitSlack
    /\ limit_seed_files \in BOOLEAN
    /\ nListed = 0
    /\ starttime = 0
    /\ endtime = 0
    /\ data = None
    /\ data_available = "None"
    /\ data_gap = FALSE

LimitNext ==
    \/ \E et \in 1..(DayLen + MaxOver) : \E app \in BOOLEAN : SeqListing(et, app)
    \/ \E et \in 1..(DayLen + MaxOver) : \E app \in BOOLEAN : ConcListing(et, app)

SpecLimit == LimitInit /\ [][LimitNext]_vars

\* C10: with more than 1000 qualifying .mseed entries either acquisition
\* operation aborts before any segment is read (None returned,
\* data_available False); with exactly 1000 it proceeds.
C10_LimitEnforced ==
    pc # "idle" =>
        /\ nMseed * Copies(endtime) > MaxSeedFiles =>
              (NoDataOutcome /\ nListed = 0)
        /\ nMseed * Copies(endtime) = MaxSeedFiles =>
              pc \in {"reading", "selecting"}

----------------------------------------------------------------------------
(* compute_spectrogram_mp on the segmentation get_acoustic_data_mp left    *)

\* Largest sampling rate, in samples per tick, of a recorded segment.
MaxRate == 2

\* Largest number of segments held in _data_segmented.
MaxSegs == 2

\* Largest duration of one segment, in ticks.
MaxSegSpan == 3

SampleRates == 1..MaxRate

\* Segment k of span ticks recorded at rate fs: one gap-free trace.
Segment(k, span, fs) ==
    [kind |-> "Trace", start |-> (k - 1) * span, npts |-> span * fs, fs |-> fs,
     masked |-> FALSE, invalid |-> {}, filled |-> {}]

\* Lines 832-837, split = None: chunk i works on _data_segmented[i][0]; its
\* times are the trace's stats.starttime and stats.endtime (to the tick).
SegmentedList(segs, N) ==
    [i \in 1..N |->
        [starttime |-> segs[i].start,
         endtime |-> segs[i].start + (segs[i].npts - 1) \div segs[i].fs,
         data |-> segs[i]]]

\* compute_spectrogram_mp(split=None, n_process=N, ...), lines 823-855.
SegmentedCall(N, L, avg) ==
    /\ pc = "idle"
    /\ avg = 0 => \A i \in 1..Len(data_segmented) : L % data_segmented[i].fs = 0
    /\ specCall' = [op |-> "compute_spectrogram_mp", L |-> L, avg_time |-> avg,
                    split |-> 0]
    /\ IF N > Len(data_segmented)
       THEN \* self._data_segmented[i] past the end of the list
            /\ pc' = "raised"
            /\ UNCHANGED <<ooi_hyd_data_list, chunkWorkers, specgram_list,
                           finish_order>>
       ELSE /\ ooi_hyd_data_list' = SegmentedList(data_segmented, N)
            /\ finish_order' = <<>>
            /\ chunkWorkers' = 1..N
            /\ specgram_list' = [k \in 1..N |-> Unset]
            /\ pc' = "mapping"
    /\ UNCHANGED <<envVars, xc, samples, seqVars, mpVars, data_gap_mode, starttime, endtime,
                   data, data_available, data_gap, callVars, ret, spectrogram,
                   limVars>>

\* An object whose get_acoustic_data_mp stored the chunk Streams in
\* _data_segmented (line 448); the chunks need not share a sampling rate.
SegmentedInit ==
    /\ dayFiles = <<>>
    /\ prevFiles = <<>>
    /\ unreachable = {}
    /\ level = Ramp
    /\ strayAt = 0
    /\ xc = NoXcorr
    /\ samples = NoSamples
    /\ data_gap_mode = 0
    /\ NoCall
    /\ NoSpectrogram
    /\ NoLimit
    /\ NoSeq
    /\ get_data_list = <<>>
    /\ acqWorkers = {}
    /\ data_list = <<>>
    /\ \E n \in 1..MaxSegs : \E span \in 1..MaxSegSpan :
          \E rate \in [1..n -> SampleRates] :
              data_segmented = [k \in 1..n |-> Segment(k, span, rate[k])]
    /\ starttime = 0
    /\ endtime = 0
    /\ data = None
    /\ data_available = "None"
    /\ data_gap = FALSE

SegmentedNext ==
    \/ \E N \in 1..MaxSegs : \E L \in BlockLens : \E avg \in AvgTimes(L) :
          SegmentedCall(N, L, avg)
    \/ \E k \in chunkWorkers : ChunkDone(k)
    \/ SpectrogramMpReduce

SpecSegmented == SegmentedInit /\ [][SegmentedNext]_vars

\* Two chunk results of the finished reduction lie on different frequency axes.
AxesDiffer ==
    \E i, j \in 1..Len(specgram_list) :
        /\ specgram_list[i].kind = "Spectrogram"
        /\ specgram_list[j].kind = "Spectrogram"
        /\ specgram_list[i].freq # specgram_list[j].freq

\* C11: the parallel reduction compares the frequency axes of the chunk
\* results: when two of them differ, no spectrogram is produced.
C11_FrequencyAxesValidated ==
    (pc = "done" /\ AxesDiffer) => spectrogram = None

----------------------------------------------------------------------------
(* The bin test of compute_spectrogram                                     *)

\* A block of the analysis of trace tr yields a number of bins other than
\* int(L/2)+1.
BinMismatch(tr, L, avg) ==
    /\ tr # None
    /\ \E i \in 1..Len(SpectrogramBlocks(tr.npts, L, avg, tr.fs)) :
          BlockBins(SpectrogramBlocks(tr.npts, L, avg, tr.fs)[i], L) # NumFreq(L)

\* sp is None or holds one full-width row for every block of the analysis.
Untruncated(sp, tr, L, avg) ==
    sp # None =>
        /\ Len(sp.values) = Len(SpectrogramBlocks(tr.npts, L, avg, tr.fs))
        /\ \A i \in 1..Len(sp.values) : sp.values[i].bins = NumFreq(L)

----------------------------------------------------------------------------
(* get_acoustic_data                                                       *)

\* A local name that no statement has bound yet.
Unbound == [kind |-> "Unbound"]

\* read(url, apply_calib=True) of a file that decodes.
ReadFile(url) == [kind |-> "Stream", start |-> UrlTime(url), npts |-> FileLen]

\* A Stream holding the given traces.
StreamOf(traces) == [kind |-> "Stream", traces |-> traces]

\* data_url_list of get_acoustic_data, lines 243-277: the .mseed entries of
\* the day, once more for every later day, behind the last file of the day
\* before when append is set.
SeqUrlList(day, prev, st, et, app) ==
    LET day_start == (st \div DayLen) * DayLen
        listed == Repeat(DayListing(day), 1 + ListingCopies(day_start + DayLen, et))
    IN IF app THEN InsertFront(listed, GetMseedUrls(prev)[Len(prev)]) ELSE listed

\* The try block of a covering entry, lines 305-329: what st is bound to
\* afterwards, whether it is still the object st_all names, and the URLs
\* handed to read.  s is the state of the loop.
TryCovering(list, i, s, bad, app) ==
    IF s.first_file /\ i # 1 /\ app
    THEN IF list[i - 1] \in bad
         THEN [st |-> s.st, alias |-> s.alias, reads |-> <<list[i - 1]>>]
         ELSE IF list[i] \in bad
         THEN [st |-> StreamOf(<<ReadFile(list[i - 1])>>), alias |-> FALSE,
               reads |-> <<list[i - 1], list[i]>>]
         ELSE [st |-> StreamOf(<<ReadFile(list[i - 1]), ReadFile(list[i])>>),
               alias |-> FALSE, reads |-> <<list[i - 1], list[i]>>]
    ELSE IF list[i] \in bad
         THEN [st |-> s.st, alias |-> s.alias, reads |-> <<list[i]>>]
         ELSE [st |-> StreamOf(<<ReadFile(list[i])>>), alias |-> FALSE,
               reads |-> <<list[i]>>]

\* "st_all = st" when st_all is None, else "st_all += st", on loop state s
\* with st and alias as the try block left them.  st_all += st extends the
\* Stream in place: when st is that same object it grows with it.
Accumulate(s, st, alias) ==
    IF st = Unbound THEN [s EXCEPT !.exc = "UnboundLocalError"]
    ELSE IF s.st_all = None
    THEN [s EXCEPT !.st_all = st, !.st = st, !.alias = TRUE]
    ELSE LET sum == StreamOf(s.st_all.traces \o st.traces)
         IN [s EXCEPT !.st_all = sum, !.st = IF alias THEN sum ELSE st,
                      !.alias = alias]

\* The loop of lines 285-349; index 1 here is index 0 of the code.  Lines
\* 288-298 parse the name of entry i and of the entry after it outside any
\* try.
RECURSIVE ReadLoop(_, _, _, _, _, _, _)
ReadLoop(list, i, s, bad, st, et, app) ==
    IF i > Len(list) \/ s.exc # "" THEN s
    ELSE IF ParseRaises(list[i]) \/ (i # Len(list) /\ ParseRaises(list[i + 1]))
    THEN [s EXCEPT !.exc = "ValueError"]
    ELSE IF Covers(list, i, st, et)
    THEN LET t == TryCovering(list, i, s, bad, app)
             s1 == [s EXCEPT !.reads = s.reads \o t.reads,
                             !.first_file = IF s.first_file /\ i # 1 THEN FALSE
                                            ELSE s.first_file]
         IN ReadLoop(list, i + 1, Accumulate(s1, t.st, t.alias), bad, st, et, app)
    ELSE IF s.first_file = FALSE
    THEN LET s1 == [s EXCEPT !.first_file = TRUE]
         IN IF ~app THEN ReadLoop(list, i + 1, s1, bad, st, et, app)
            ELSE LET ok == list[i] \notin bad
                     s2 == [s1 EXCEPT !.reads = s.reads \o <<list[i]>>]
                     st1 == IF ok THEN StreamOf(<<ReadFile(list[i])>>) ELSE s.st
                     al1 == IF ok THEN FALSE ELSE s.alias
                 IN IF s.st_all = None
                    THEN [s2 EXCEPT !.exc = "TypeError"]
                    ELSE ReadLoop(list, i + 1, Accumulate(s2, st1, al1), bad, st, et, app)
    ELSE ReadLoop(list, i + 1, s, bad, st, et, app)

\* The state of the loop before its first iteration, lines 281-282.
LoopStart ==
    [st_all |-> None, st |-> Unbound, alias |-> FALSE, first_file |-> TRUE,
     reads |-> <<>>, exc |-> ""]

\* What a call of get_acoustic_data does, as a record: kind "Return" with
\* the returned value, or kind "Raise" with the exception; assigns tells
\* whether self.data and self.data_available were assigned, list, reads and
\* st_all are data_url_list, the URLs read and st_all as the call left them.
Outcome(kind, exc, value, assigns, avail, gap, list, reads, acc) ==
    [kind |-> kind, exc |-> exc, value |-> value, values |-> NoSamples,
     assigns |-> assigns, data_available |-> avail, data_gap |-> gap,
     list |-> list, reads |-> reads, st_all |-> acc]

\* get_acoustic_data(starttime, endtime, node, append), lines 220-392, on
\* the listings day and prev of which unreach cannot be fetched, with the
\* URLs in bad failing to decode; other counts the entries of the day's
\* listing that are no .mseed files.
GetAcousticData(day, prev, unreach, bad, mode, limit, other, st, et, app) ==
    LET copies == 1 + ListingCopies((st \div DayLen) * DayLen + DayLen, et)
        list == SeqUrlList(day, prev, st, et, app)
        s == ReadLoop(list, 1, LoopStart, bad, st, et, app)
        merged == MergeTraces(s.st_all.traces, mode)
        sliced == SliceTrace(merged, st, et)
    IN IF app /\ "prev" \in unreach
       THEN \* len(data_url_list_prev_day) of None
            Outcome("Raise", "TypeError", None, FALSE, "", FALSE, <<>>, <<>>, None)
       ELSE IF app /\ prev = <<>>
       THEN \* data_url_prev_day[-1] of an empty array
            Outcome("Raise", "IndexError", None, FALSE, "", FALSE, <<>>, <<>>, None)
       ELSE IF "day" \in unreach
       THEN Outcome("Return", "", None, TRUE, "False", FALSE, <<>>, <<>>, None)
       ELSE IF TooManyFiles(limit, (Len(DayListing(day)) + other) * copies)
       THEN Outcome("Return", "", None, TRUE, "False", FALSE, <<>>, <<>>, None)
       ELSE IF s.exc # ""
       THEN Outcome("Raise", s.exc, None, FALSE, "", FALSE, list, s.reads, s.st_all)
       ELSE IF mode \notin {0, 1}
       THEN \* 'Invalid Data Gap Mode'
            Outcome("Return", "", None, FALSE, "", FALSE, list, s.reads, s.st_all)
       ELSE IF s.st_all = None
       THEN \* st_all.merge of None
            Outcome("Raise", "AttributeError", None, FALSE, "", FALSE, list,
                    s.reads, s.st_all)
       ELSE IF sliced = None
       THEN \* st_all[0] of the empty Stream
            Outcome("Raise", "IndexError", None, FALSE, "", FALSE, list, s.reads,
                    s.st_all)
       ELSE [Outcome("Return", "", sliced, TRUE, "True", sliced.masked, list,
                     s.reads, s.st_all)
                EXCEPT !.values = SliceValues(MergedValues(s.st_all.traces, mode),
                                              st, et)]

\* get_acoustic_data called on the object itself.
SeqCall(st, et, app) ==
    /\ pc = "idle"
    /\ starttime' = st
    /\ endtime' = et
    /\ append' = app
    /\ \E bad \in SUBSET {Url(t) : t \in {dayFiles[i] : i \in 1..Len(dayFiles)}
                                      \cup {prevFiles[i] : i \in 1..Len(prevFiles)}} :
          LET res == GetAcousticData(dayFiles, prevFiles, unreachable, bad,
                                     data_gap_mode, limit_seed_files, nOther,
                                     st, et, app)
          IN /\ broken' = bad
             /\ data_url_list' = res.list
             /\ read_log' = res.reads
             /\ st_all' = res.st_all
             /\ data_gap' = res.data_gap
             /\ IF res.assigns
                THEN /\ data' = res.value
                     /\ samples' = res.values
                     /\ data_available' = res.data_available
                ELSE UNCHANGED <<data, samples, data_available>>
             /\ IF res.kind = "Raise"
                THEN pc' = "raised" /\ ret' = Raise(res.exc)
                ELSE pc' = "done" /\ ret' = res.value
    /\ UNCHANGED <<envVars, xc, mpVars, data_gap_mode, valid_data_url_list,
                   max_workers, pending, st_list, specVars, limVars>>

\* The object before a call, on a server of which some listings may be
\* out of reach.
ListingInit ==
    /\ dayFiles \in {SortedSeq(S) : S \in SUBSET DayTimes}
    /\ prevFiles \in {<<>>, <<0 - FileLen>>}
    /\ unreachable \in SUBSET Days
    /\ level = Ramp
    /\ strayAt = 0
    /\ xc = NoXcorr
    /\ samples = NoSamples
    /\ data_gap_mode \in GapModes
    /\ NoCall
    /\ NoSpectrogram
    /\ NoLimit
    /\ NoSeq
    /\ NoMp
    /\ starttime = 0
    /\ endtime = 0
    /\ data = None
    /\ data_available = "None"
    /\ data_gap = FALSE

ListingNext ==
    \/ \E st \in WindowStarts : \E et \in (st + 1)..(DayLen + MaxOver) :
          \E app \in BOOLEAN : SeqCall(st, et, app)
    \/ \E st \in WindowStarts : \E et \in DayWindowEnds(st) : \E app \in BOOLEAN :
          ConcCall(st, et, app, 1)
    \/ \E i \in pending : TaskDone(i)
    \/ Assemble

\* One call of either acquisition operation, the sequential one or the
\* concurrent one read by one thread.
SpecListing == ListingInit /\ [][ListingNext]_vars

\* A listing the finished call had to fetch was out of reach (the day of
\* starttime, or the day before when append is set), and the listings
\* within reach hold files.
ListingUnreachable ==
    /\ pc \in {"done", "raised"}
    /\ "day" \in unreachable \/ (append /\ "prev" \in unreachable)
    /\ "day" \in unreachable \/ dayFiles # <<>>
    /\ "prev" \in unreachable \/ prevFiles # <<>>

\* C13: when the listing of a day the request needs is unreachable, the
\* acquisition call returns None with data = None and data_available =
\* False and raises nothing.
C13_UnreachableIsControlled == ListingUnreachable => NoDataOutcome

\* C14: a data_gap_mode that neither acquisition operation supports is
\* rejected before any segment is listed or fetched: no URL list is built,
\* no read task is submitted and no file is read.
C14_InvalidModeFailsFast ==
    data_gap_mode \notin {0, 1, 2} =>
        /\ data_url_list = <<>>
        /\ valid_data_url_list = <<>>
        /\ pending = {}
        /\ st_list = <<>>
        /\ read_log = <<>>

----------------------------------------------------------------------------
(* The shape of a Spectrogram                                              *)

\* values of sp holds one row per time bin and one value per frequency bin.
WellShaped(sp) ==
    sp.kind = "Spectrogram" =>
        /\ Len(sp.values) = Len(sp.time)
        /\ \A i \in 1..Len(sp.values) : sp.values[i].bins = Len(sp.freq)

\* C15: every Spectrogram that compute_spectrogram or compute_spectrogram_mp
\* produces, in the object or in a chunk, has as many rows of values as
\* time bins and as many values in each row as frequency bins.
C15_SpectrogramShape ==
    /\ WellShaped(spectrogram)
    /\ \A k \in 1..Len(specgram_list) : WellShaped(specgram_list[k])

\* C15 witness: compute_spectrogram_mp has produced a spectrogram whose
\* rows come from more than one chunk.
C15_Witness ==
    /\ pc = "done"
    /\ spectrogram # None
    /\ Len(specgram_list) > 1
    /\ Len(spectrogram.time) > Len(specgram_list[1].time)

----------------------------------------------------------------------------
(* get_acoustic_data_mp                                                    *)

\* Largest number of processes the time frame is divided among.
MaxProcs == 2

\* get_data_list, lines 407-411: N windows of equal length (a whole number
\* of ticks for the requests drawn).
GetDataList(st, et, N) ==
    LET seconds_per_process == (et - st) \div N
    IN [i \in 1..N |-> [starttime |-> st + (i - 1) * seconds_per_process,
                        endtime |-> st + i * seconds_per_process]]

\* list without its None entries: list(filter(None.__ne__, data_list)).
RECURSIVE FilterNone(_)
FilterNone(list) ==
    IF list = <<>> THEN <<>>
    ELSE IF Head(list) = None THEN FilterNone(Tail(list))
    ELSE <<Head(list)>> \o FilterNone(Tail(list))

\* Lines 444-449: the sum of the chunk Streams merged with method=1 and no
\* fill value: the samples of a gap between chunks are masked, and so
\* stay the samples a chunk delivered masked.
MergeChunks(list) ==
    LET c == Covered(list)
    IN [kind |-> "Trace", start |-> MinOf(c), npts |-> MaxOf(c) - MinOf(c) + 1,
        fs |-> 1,
        masked |-> (Gaps(list) # {} \/ \E i \in 1..Len(list) : list[i].masked),
        invalid |-> Gaps(list) \cup UNION {list[i].invalid : i \in 1..Len(list)},
        filled |-> UNION {list[i].filled : i \in 1..Len(list)}]

\* get_acoustic_data_mp(starttime, endtime, node, n_process=N), lines
\* 398-416: the windows are handed to a pool of N processes.
MpCall(st, et, N) ==
    /\ pc = "idle"
    /\ (et - st) % N = 0
    /\ get_data_list' = GetDataList(st, et, N)
    /\ acqWorkers' = 1..N
    /\ data_list' = [k \in 1..N |-> Unset]
    /\ broken' \in SUBSET {Url(t) : t \in {dayFiles[i] : i \in 1..Len(dayFiles)}
                                    \cup {prevFiles[i] : i \in 1..Len(prevFiles)}}
    /\ pc' = "acquiring"
    /\ ret' = Running
    /\ UNCHANGED <<envVars, xc, samples, seqVars, data_segmented, data_gap_mode, starttime,
                   endtime, data, data_available, data_gap, append,
                   data_url_list, valid_data_url_list, max_workers, pending,
                   st_list, specVars, limVars>>

\* What get_acoustic_data (append left at its default) does on window k of
\* the running get_acoustic_data_mp.
ChunkOutcome(k) ==
    GetAcousticData(dayFiles, prevFiles, unreachable, broken, data_gap_mode,
                    limit_seed_files, nOther, get_data_list[k].starttime,
                    get_data_list[k].endtime, TRUE)

\* The data array of the merge of the chunk Streams of lines 444-449: a
\* sample two chunks hold has the value of the later chunk.
MergeChunkValues ==
    LET have == {k \in 1..Len(data_list) : data_list[k].kind = "Trace"}
        val(k) == ChunkOutcome(k).values.val
        held == UNION {DOMAIN val(k) : k \in have}
    IN SampleValues(1, [t \in held |->
                           val(MaxOf({k \in have : t \in DOMAIN val(k)}))[t]])

\* A worker process runs get_acoustic_data on its copy of the object and
\* hands back what the call returned or raised.
ChunkAcquired(k) ==
    /\ pc = "acquiring"
    /\ k \in acqWorkers
    /\ LET res == ChunkOutcome(k)
       IN data_list' = [data_list EXCEPT
                           ![k] = IF res.kind = "Raise" THEN Raise(res.exc)
                                  ELSE res.value]
    /\ acqWorkers' = acqWorkers \ {k}
    /\ UNCHANGED <<envVars, xc, samples, seqVars, get_data_list, data_segmented, data_gap_mode,
                   starttime, endtime, data, data_available, data_gap, callVars,
                   ret, pc, specVars, limVars>>

\* Lines 416-464: starmap has returned or raised.
MpAssemble ==
    /\ pc = "acquiring"
    /\ acqWorkers = {}
    /\ LET N == Len(get_data_list)
           kept == FilterNone(data_list)
           merged == MergeChunks(kept)
       IN IF \E k \in 1..N : data_list[k].kind = "Raise"
          THEN \* starmap re-raises the worker's exception inside the try
               /\ data' = None
               /\ samples' = NoSamples
               /\ data_available' = "False"
               /\ starttime' = get_data_list[1].starttime
               /\ endtime' = get_data_list[N].endtime
               /\ ret' = None
               /\ pc' = "done"
               /\ UNCHANGED <<data_gap, data_segmented>>
          ELSE IF kept = <<>>
          THEN \* data and data_available are set, then data_list[0] of []
               /\ data' = None
               /\ samples' = NoSamples
               /\ data_available' = "False"
               /\ ret' = Raise("IndexError")
               /\ pc' = "raised"
               /\ UNCHANGED <<starttime, endtime, data_gap, data_segmented>>
          ELSE /\ data_segmented' = kept
               /\ data_gap' = (data_gap \/ merged.masked)
               /\ data' = merged
               /\ samples' = MergeChunkValues
               /\ data_available' = "True"
               /\ starttime' = get_data_list[1].starttime
               /\ endtime' = get_data_list[N].endtime
               /\ ret' = merged
               /\ pc' = "done"
    /\ UNCHANGED <<envVars, xc, seqVars, get_data_list, acqWorkers, data_list,
                   data_gap_mode, callVars, specVars, limVars>>

MpNext ==
    \/ \E st \in WindowStarts : \E et \in DayWindowEnds(st) : \E N \in 1..MaxProcs :
          MpCall(st, et, N)
    \/ \E k \in acqWorkers : ChunkAcquired(k)
    \/ MpAssemble

\* One call of get_acoustic_data_mp.
SpecMp == ListingInit /\ [][MpNext]_vars

\* C16: when every worker chunk of get_acoustic_data_mp returns None the
\* operation returns None with data = None and data_available = False and
\* raises nothing.
C16_MpAllNoneIsNoData ==
    (/\ pc \in {"done", "raised"}
     /\ Len(data_list) > 0
     /\ \A k \in 1..Len(data_list) : data_list[k] = None)
        => NoDataOutcome

----------------------------------------------------------------------------
(* The segmentation from scratch                                           *)

\* C17: with a numeric split the period from starttime to endtime is cut
\* into consecutive parts that are each exactly split long, except the
\* last, which may be shorter.
C17_PartsAreSplitLong ==
    (specCall # None /\ specCall.op = "compute_spectrogram_mp") =>
        LET n == Len(ooi_hyd_data_list)
            part(k) == ooi_hyd_data_list[k].endtime - ooi_hyd_data_list[k].starttime
        IN /\ ooi_hyd_data_list[1].starttime = starttime
           /\ ooi_hyd_data_list[n].endtime = endtime
           /\ \A k \in 1..(n - 1) :
                 /\ part(k) = specCall.split
                 /\ ooi_hyd_data_list[k + 1].starttime = ooi_hyd_data_list[k].endtime
           /\ part(n) <= specCall.split

----------------------------------------------------------------------------
(* The covering test and the selected list                                 *)

\* End of the covering interval of entry i of the time-ordered list: the
\* start of the next entry, or the end of the day for the last entry.
IntervalEnd(list, i) ==
    IF i # Len(list) THEN UrlTime(list[i + 1]) ELSE DayEnd(UrlTime(list[i]))

\* The half-open covering interval of entry i intersects [st, et).
Intersects(list, i, st, et) ==
    /\ UrlTime(list[i]) < IntervalEnd(list, i)
    /\ UrlTime(list[i]) < et
    /\ st < IntervalEnd(list, i)

\* C18: an entry of the listing is treated as covering the window exactly
\* when its half-open interval [start, start of next entry) intersects the
\* half-open window [starttime, endtime); an entry whose interval ends at
\* starttime is not covering.  Stated on the list the selection loop walks
\* when nothing is appended to it, which is the day's catalog.
C18_CoversIffIntersects ==
    (pc \in {"fetching", "done", "raised"} /\ ~append) =>
        \A i \in 1..Len(data_url_list) :
            Covers(data_url_list, i, starttime, endtime)
                <=> Intersects(data_url_list, i, starttime, endtime)

\* <<cat[a], ..., cat[b]>> restricted to the positions in keep.
RECURSIVE Pick(_, _, _, _)
Pick(cat, a, b, keep) ==
    IF a > b THEN <<>>
    ELSE (IF a \in keep THEN <<cat[a]>> ELSE <<>>) \o Pick(cat, a + 1, b, keep)

\* The entries of the time-ordered catalog cat whose interval intersects
\* the window, with the entry before the first and the entry after the
\* last of them when app is set and they exist.
CoveringWithNeighbours(cat, st, et, app) ==
    LET cov == {i \in 1..Len(cat) : Intersects(cat, i, st, et)}
        near == IF app /\ cov # {}
                THEN {MinOf(cov) - 1, MaxOf(cov) + 1} \cap (1..Len(cat))
                ELSE {}
    IN Pick(cat, 1, Len(cat), cov \cup near)

\* C19: the selected list holds exactly the covering entries of the
\* catalog, and with append = True also the entry just before the first and
\* the entry just after the last covering entry, where the catalog has them.
C19_SelectedIsCoveringPlusNeighbours ==
    pc \in {"fetching", "done"} =>
        valid_data_url_list =
            CoveringWithNeighbours(Catalog, starttime, endtime, append)

----------------------------------------------------------------------------
(* The flagged gap                                                         *)

\* The sample times that lie after the end of one decoded segment and
\* before the start of another and that no decoded segment holds.
GapPositions ==
    LET dec == {i \in 1..Len(st_list) : st_list[i] # None}
        lo == MinOf({st_list[i].start + st_list[i].npts : i \in dec})
        hi == MaxOf({st_list[i].start : i \in dec})
    IN {t \in lo..(hi - 1) : \A i \in dec : t \notin Ticks(st_list[i])}

----------------------------------------------------------------------------
(* The zero-filled, demeaned trace of gap mode 2                           *)

\* Largest level a file's samples hold.
MaxLevel == 2

Levels == 0..MaxLevel

\* An object of gap mode 2 on a server whose files hold any levels.
DemeanInit ==
    /\ dayFiles \in {SortedSeq(S) : S \in SUBSET DayTimes}
    /\ prevFiles \in {<<>>, <<0 - FileLen>>}
    /\ unreachable = {}
    /\ level \in [FileTimes -> Levels]
    /\ strayAt = 0
    /\ xc = NoXcorr
    /\ samples = NoSamples
    /\ data_gap_mode = 2
    /\ NoCall
    /\ NoSpectrogram
    /\ NoLimit
    /\ NoSeq
    /\ NoMp
    /\ starttime = 0
    /\ endtime = 0
    /\ data = None
    /\ data_available = "None"
    /\ data_gap = FALSE

DemeanNext ==
    \/ \E st \in WindowStarts : \E et \in DayWindowEnds(st) : \E app \in BOOLEAN :
          ConcCall(st, et, app, 1)
    \/ \E i \in pending : TaskDone(i)
    \/ Assemble

\* get_acoustic_data_conc under gap mode 2, read by one thread.
SpecDemean == DemeanInit /\ [][DemeanNext]_vars

\* The sample times of the delivered trace that a decoded file holds.
OriginallyValid ==
    (data.start .. (data.start + data.npts - 1)) \ data.filled

\* C21: under gap mode 2 the delivered trace has mean 0 over the samples
\* that were originally valid (their sum is 0) and holds 0 at every gap
\* position, whatever levels the segments outside the window hold.
C21_DemeanedWindowMeanZero ==
    (pc = "done" /\ ret.kind = "Trace" /\ data_gap_mode = 2) =>
        /\ SumOver(samples.val, OriginallyValid) = 0
        /\ \A t \in data.filled : samples.val[t] = 0

----------------------------------------------------------------------------
(* The blocks of compute_spectrogram                                       *)

\* compute_spectrogram has returned on the caller's object.
SpectrogramDone ==
    pc = "done" /\ specCall # None /\ specCall.op = "compute_spectrogram"

\* C22: in periodogram mode on a trace of n samples compute_spectrogram
\* leaves floor(n / L) rows, row k computed from the samples
\* [k * L, (k + 1) * L); only a remainder shorter than L is left out.
C22_PeriodogramBlocks ==
    (SpectrogramDone /\ specCall.avg_time = 0) =>
        LET nblocks == data.npts \div specCall.L
        IN IF nblocks = 0 THEN spectrogram = None
           ELSE /\ spectrogram # None
                /\ Len(spectrogram.values) = nblocks
                /\ \A k \in 0..(nblocks - 1) :
                      /\ spectrogram.values[k + 1].first = k * specCall.L
                      /\ spectrogram.values[k + 1].len = specCall.L

\* The samples of the trace, counted from its first, that row i of the
\* spectrogram is computed from.
RowSamples(i) ==
    LET r == spectrogram.values[i]
    IN (r.first - data.start * data.fs) .. (r.first - data.start * data.fs + r.len - 1)

\* C23: in Welch mode compute_spectrogram leaves one row for every full
\* block of avg_time seconds of the trace, one more row for the shorter
\* remainder exactly when the remainder has at least L samples, and no
\* sample is analysed in two rows.
C23_WelchBlocks ==
    (SpectrogramDone /\ specCall.avg_time \notin {0, SubSample}) =>
        LET blk == specCall.avg_time * data.fs
            nfull == data.npts \div blk
            rest == data.npts % blk
            nrows == nfull + (IF rest >= specCall.L THEN 1 ELSE 0)
        IN IF nrows = 0 THEN spectrogram = None
           ELSE /\ spectrogram # None
                /\ Len(spectrogram.values) = nrows
                /\ \A k \in 0..(nfull - 1) :
                      RowSamples(k + 1) = (k * blk)..((k + 1) * blk - 1)
                /\ rest >= specCall.L =>
                      RowSamples(nrows) = (nfull * blk)..(data.npts - 1)
                /\ \A i, j \in 1..nrows :
                      i # j => RowSamples(i) \cap RowSamples(j) = {}

----------------------------------------------------------------------------
(* The order of the parallel reduction                                     *)

\* The spectrogram of chunk k of the running compute_spectrogram_mp.
ChunkSpectrogram(k) ==
    ComputeSpectrogram(ooi_hyd_data_list[k].data, ooi_hyd_data_list[k].starttime,
                       specCall.L, specCall.avg_time)

\* compute_spectrogram_mp has returned with a spectrogram.
ReductionDone ==
    /\ pc = "done"
    /\ specCall # None
    /\ specCall.op = "compute_spectrogram_mp"
    /\ spectrogram # None

----------------------------------------------------------------------------
(* Listing entries whose name holds no time                                *)

\* A server whose listing of the day holds files and, at any place, one
\* entry that ends in .mseed and has no time after 'YDH'.
NamesInit ==
    /\ dayFiles \in {SortedSeq(S) : S \in (SUBSET DayTimes) \ {{}}}
    /\ prevFiles = <<0 - FileLen>>
    /\ unreachable = {}
    /\ level = Ramp
    /\ strayAt \in 1..(Len(dayFiles) + 1)
    /\ xc = NoXcorr
    /\ samples = NoSamples
    /\ data_gap_mode \in {0, 1}
    /\ NoCall
    /\ NoSpectrogram
    /\ NoLimit
    /\ NoSeq
    /\ NoMp
    /\ starttime = 0
    /\ endtime = 0
    /\ data = None
    /\ data_available = "None"
    /\ data_gap = FALSE

NamesNext ==
    \/ \E st \in WindowStarts : \E et \in DayWindowEnds(st) : \E app \in BOOLEAN :
          SeqCall(st, et, app)
    \/ \E st \in WindowStarts : \E et \in DayWindowEnds(st) : \E app \in BOOLEAN :
          ConcCall(st, et, app, 1)
    \/ \E i \in pending : TaskDone(i)
    \/ Assemble

\* One call of either acquisition operation on such a listing.
SpecNames == NamesInit /\ [][NamesNext]_vars

\* C25: an entry that ends in .mseed and whose name holds no parseable
\* time is left out of the list of segments the call works on, and the
\* call does not fail on it.
C25_StrayNameLeftOut ==
    strayAt # 0 =>
        /\ ~(pc = "raised" /\ ret = Raise("ValueError"))
        /\ \A i \in 1..Len(data_url_list) : data_url_list[i] # Stray

----------------------------------------------------------------------------
(* Successive acquisition calls on one object                              *)

\* The call has returned or raised and the caller goes on: the locals of
\* the call are gone, the fields of the object stay.
Return ==
    /\ pc \in {"done", "raised"}
    /\ pc' = "idle"
    /\ ret' = None
    /\ append' = FALSE
    /\ data_url_list' = <<>>
    /\ valid_data_url_list' = <<>>
    /\ max_workers' = 1
    /\ broken' = {}
    /\ pending' = {}
    /\ st_list' = <<>>
    /\ read_log' = <<>>
    /\ st_all' = None
    /\ get_data_list' = <<>>
    /\ acqWorkers' = {}
    /\ data_list' = <<>>
    /\ UNCHANGED <<envVars, xc, samples, data_segmented, data_gap_mode, starttime,
                   endtime, data, data_available, data_gap, specVars, limVars>>

\* A new object on a server whose listings can be fetched.
CallsInit ==
    /\ dayFiles \in {SortedSeq(S) : S \in SUBSET DayTimes}
    /\ prevFiles = <<0 - FileLen>>
    /\ unreachable = {}
    /\ level = Ramp
    /\ strayAt = 0
    /\ xc = NoXcorr
    /\ samples = NoSamples
    /\ data_gap_mode \in GapModes
    /\ NoCall
    /\ NoSpectrogram
    /\ NoLimit
    /\ NoSeq
    /\ NoMp
    /\ starttime = 0
    /\ endtime = 0
    /\ data = None
    /\ data_available = "None"
    /\ data_gap = FALSE

\* The calls request windows that start with the day.
CallsNext ==
    \/ \E et \in DayWindowEnds(0) : \E app \in BOOLEAN : SeqCall(0, et, app)
    \/ \E et \in DayWindowEnds(0) : \E app \in BOOLEAN : ConcCall(0, et, app, 1)
    \/ \E i \in pending : TaskDone(i)
    \/ Assemble
    \/ \E et \in DayWindowEnds(0) : \E N \in 1..MaxProcs : MpCall(0, et, N)
    \/ \E k \in acqWorkers : ChunkAcquired(k)
    \/ MpAssemble
    \/ Return

\* Any sequence of calls of the three acquisition operations on one object.
SpecCalls == CallsInit /\ [][CallsNext]_vars

\* C26: when the most recent get_acoustic_data or get_acoustic_data_conc
\* call returned None, the object holds no trace: data is None and
\* data_available does not report data (it is False, or None on an object
\* on which no call has assigned it yet).
C26_FailedCallClearsData ==
    (pc = "done" /\ ret = None /\ get_data_list = <<>>) =>
        /\ data = None
        /\ data_available # "True"

\* C27: a call that delivers a trace without masked samples leaves
\* data_gap = False, whatever an earlier call on the object had set.
C27_GapFlagIsOfLastCall ==
    (pc = "done" /\ ret.kind = "Trace" /\ ~data.masked) => ~data_gap

----------------------------------------------------------------------------
(* The assembled trace and the completion order                            *)

\* C28: the trace get_acoustic_data_conc assembles is determined by the
\* selected segments and their decode outcomes alone: its start, length,
\* gap positions and samples and data_gap are what the results taken in
\* request order give, in whatever order the read tasks completed.
C28_AssemblyOrderIndependent ==
    (pc = "done" /\ ret.kind = "Trace") =>
        LET inOrder == SliceTrace(MergeTraces(Requested, data_gap_mode),
                                  starttime, endtime)
        IN /\ data = inOrder
           /\ samples = SliceValues(MergedValues(Requested, data_gap_mode),
                                    starttime, endtime)
           /\ data_gap = inOrder.masked

\* C28 witness: a trace holding samples of two decoded segments has been
\* assembled, and the later segment was delivered first.
C28_Witness ==
    /\ pc = "done"
    /\ ret.kind = "Trace"
    /\ st_list # Requested
    /\ \E i, j \in 1..Len(st_list) :
          /\ i < j
          /\ st_list[i] # None
          /\ st_list[j] # None
          /\ st_list[i].start > st_list[j].start
          /\ Ticks(st_list[i]) \cap DOMAIN samples.val # {}
          /\ Ticks(st_list[j]) \cap DOMAIN samples.val # {}

----------------------------------------------------------------------------
(* The accumulation of the sequential loop                                 *)

\* Number of times the decoded Stream of url is held in st_all.
TimesAdded(url) ==
    IF st_all = None THEN 0 ELSE Count(st_all.traces, ReadFile(url))

\* C29: in the loop of get_acoustic_data every segment that was read
\* successfully is held in the accumulated stream exactly once, a segment
\* whose read failed is not held, and no unbound name is used.
C29_ReadAddedOnce ==
    (pc \in {"done", "raised"} /\ read_log # <<>>) =>
        /\ ret # Raise("UnboundLocalError")
        /\ \A i \in 1..Len(read_log) :
              TimesAdded(read_log[i]) = IF read_log[i] \in broken THEN 0 ELSE 1

----------------------------------------------------------------------------
(* Hydrophone_Xcorr.avg_over_mult_periods                                  *)

\* Largest num_periods, largest avg_time (in ticks) and latest start_time.
MaxPeriods == 3
MaxAvgTime == 2
MaxStart == 1

\* The window starts a run over MaxPeriods periods can ask for.
PeriodStarts(s, avg) == {s + j * avg : j \in 0..(MaxPeriods - 1)}

\* avg_over_mult_periods(num_periods, start_time) on an object of the given
\* avg_time, lines 1523-1536; missing holds the starts of the windows for
\* which get_audio finds no data on one of the two hydrophones.
XcorrCall(n, s, avg, missing) ==
    /\ xc = NoXcorr
    /\ xc' = [at |-> "loop", num_periods |-> n, avg_time |-> avg,
              first_start |-> s, missing |-> missing, k |-> 0,
              start_time |-> s, first_loop |-> TRUE, requested |-> <<>>,
              accumulated |-> <<>>, exc |-> ""]
    /\ UNCHANGED <<envVars, samples, seqVars, mpVars, data_gap_mode, starttime,
                   endtime, data, data_available, data_gap, callVars, ret, pc,
                   specVars, limVars>>

\* One iteration of the loop of lines 1537-1578.  get_audio(start_time)
\* requests the window [start_time, start_time + avg_time) from both
\* hydrophones and returns (None, None, None) when one has no data.
XcorrPeriod ==
    /\ xc.at = "loop"
    /\ xc.k < xc.num_periods
    /\ LET asked == [xc EXCEPT !.requested = Append(xc.requested, xc.start_time),
                               !.k = xc.k + 1]
       IN IF xc.start_time \in xc.missing
          THEN \* flag == None: continue
               xc' = asked
          ELSE IF xc.first_loop
          THEN xc' = [asked EXCEPT !.accumulated = <<xc.start_time>>,
                                   !.first_loop = FALSE]
          ELSE xc' = [asked EXCEPT
                         !.accumulated = Append(xc.accumulated, xc.start_time),
                         !.start_time = xc.start_time + xc.avg_time]
    /\ UNCHANGED <<envVars, samples, seqVars, mpVars, data_gap_mode, starttime,
                   endtime, data, data_available, data_gap, callVars, ret, pc,
                   specVars, limVars>>

\* Lines 1583-1585: the loop is over; get_bearing_angle(xcorr, t) uses the
\* local xcorr, which no iteration has bound when every period was skipped.
XcorrEnd ==
    /\ xc.at = "loop"
    /\ xc.k = xc.num_periods
    /\ IF xc.first_loop
       THEN xc' = [xc EXCEPT !.at = "raised", !.exc = "UnboundLocalError"]
       ELSE xc' = [xc EXCEPT !.at = "done"]
    /\ UNCHANGED <<envVars, samples, seqVars, mpVars, data_gap_mode, starttime,
                   endtime, data, data_available, data_gap, callVars, ret, pc,
                   specVars, limVars>>

XcorrInit ==
    /\ dayFiles = <<>>
    /\ prevFiles = <<>>
    /\ unreachable = {}
    /\ level = Ramp
    /\ strayAt = 0
    /\ xc = NoXcorr
    /\ samples = NoSamples
    /\ data_gap_mode = 2
    /\ NoCall
    /\ NoSpectrogram
    /\ NoLimit
    /\ NoSeq
    /\ NoMp
    /\ starttime = 0
    /\ endtime = 0
    /\ data = None
    /\ data_available = "None"
    /\ data_gap = FALSE

XcorrNext ==
    \/ \E n \in 1..MaxPeriods : \E s \in 0..MaxStart : \E avg \in 1..MaxAvgTime :
          \E missing \in SUBSET PeriodStarts(s, avg) : XcorrCall(n, s, avg, missing)
    \/ XcorrPeriod
    \/ XcorrEnd

SpecXcorr == XcorrInit /\ [][XcorrNext]_vars

\* C30: the k-th iteration (k = 0 .. num_periods - 1) requests the window
\* that starts at start_time + k * avg_time, and no window is accumulated
\* twice, also when a period is skipped.
C30_ConsecutivePeriods ==
    xc # NoXcorr =>
        /\ \A i \in 1..Len(xc.requested) :
              xc.requested[i] = xc.first_start + (i - 1) * xc.avg_time
        /\ \A i, j \in 1..Len(xc.accumulated) :
              i # j => xc.accumulated[i] # xc.accumulated[j]

====
